---- MODULE Spec2Model ----
(***************************************************************************)
(* Model of the modal / navigation controller of the portfolio page        *)
(* (src/main.js): static panels, the dynamic project-details panel, the    *)
(* background container, the address fragment, the session history and     *)
(* the pending setTimeout callbacks.                                       *)
(*                                                                         *)
(* Time is continuous and delays are in milliseconds.  The pending         *)
(* callbacks are kept in the order in which they will run: by deadline,    *)
(* and in the order of registration when the deadlines are equal, as the   *)
(* browser's timer queue does.  A user event can arrive at any instant, so *)
(* the times left of the pending callbacks are not single numbers: `zone`  *)
(* holds what is known about them, as bounds on their differences (a       *)
(* difference-bound matrix in canonical form), and setTimeout places a new *)
(* callback at every position of the queue that these bounds allow.  A     *)
(* callback runs when its delay has passed or later, never before a        *)
(* callback with an earlier deadline.  A task takes time: the delays of    *)
(* two callbacks that one task registers count from two instants.          *)
(***************************************************************************)
EXTENDS Integers, Sequences, FiniteSets, TLC

\* ------------------------------------------------------------------ bounds

\* Number of user events (clicks, key presses, history traversals) in a run.
MaxEvents == 2

\* ------------------------------------------------------- program constants

OpenDelay == 10
RestoreDelay == 300
RemoveDelay == 300
ReassertDelay == 350
ReopenDelay == 50
DetailsDelay == 50
AnimDelay == 100
CheckHashDelay == 200

\* ------------------------------------------------------------ the document

\* Elements with class modal-overlay present when the script runs.
modals == {"modal-about", "modal-projects", "modal-contact"}

\* data-modal values of the navigation buttons; "blog" has no panel.
navButtons == {"about", "projects", "contact", "blog"}

\* Projects whose <id>-details block exists in the document; an id is any
\* attribute value without white space: "a/b" contains a slash, "a<b" a
\* character that a URL fragment holds percent-encoded.
DetailsIds == {"p1", "p2", "a/b", "a<b"}

\* data-project-id values of the project cards; "nope" has no details block.
CardIds == {"p1", "p2", "a/b", "a<b", "nope"}

\* Fragments the page can be loaded with: none, the projects list, and the
\* details of two projects of the document.
LoadFragments == {"", "projects", "project/p1", "project/a/b"}

\* Further fragments a visitor may load the page with: the other static keys,
\* an unknown key, the project prefix with an empty, a missing and an
\* over-long id.
OtherLoadFragments == {"about", "contact", "blog", "project/", "project/nope", "project/p1/x"}

detailsModalId == "modal-project-details"

\* ------------------------------------------------------------------ strings

StartsWith(s, p) == Len(s) >= Len(p) /\ SubSeq(s, 1, Len(p)) = p

\* Position of the first occurrence of p in s, 0 when there is none.
IndexOf(s, p) ==
    LET hits == {i \in 1..(Len(s) + 1) :
                    i + Len(p) - 1 <= Len(s) /\ SubSeq(s, i, i + Len(p) - 1) = p}
    IN  IF hits = {} THEN 0 ELSE CHOOSE i \in hits : \A j \in hits : i <= j

\* String.prototype.replace with a string pattern: the first occurrence only.
Replace(s, p, r) ==
    LET i == IndexOf(s, p)
    IN  IF i = 0 THEN s
        ELSE SubSeq(s, 1, i - 1) \o r \o SubSeq(s, i + Len(p), Len(s))

\* String.prototype.substring(1).
Substring1(s) == SubSeq(s, 2, Len(s))

\* s.split('/')[1]: the text between the first and the second slash;
\* "undefined" is represented by the empty string (both are falsy).
SplitSecond(s) ==
    LET i == IndexOf(s, "/")
    IN  IF i = 0 THEN ""
        ELSE LET rest == SubSeq(s, i + 1, Len(s))
                 j == IndexOf(rest, "/")
             IN  IF j = 0 THEN rest ELSE SubSeq(rest, 1, j - 1)

\* --------------------------------------------------------------- variables

VARIABLES
    active,      \* [modals -> BOOLEAN]: class "active" of each static panel
    els,         \* every details panel element created so far: [proj, active]
    body,        \* the details panel elements attached to the document, in order
    container,   \* .container: [hidden, opacity, pointerEvents]
    overflow,    \* document.body.style.overflow
    fragment,    \* fragment of the current URL, without '#'
    history,     \* the session history: fragments of its entries
    hidx,        \* index of the current entry in history
    timers,      \* pending setTimeout callbacks, in the order they will run
    zone,        \* bounds on the times left of the pending callbacks
    heroShown,   \* the entrance animation has been triggered
    loaded,      \* DOMContentLoaded has been handled
    last,        \* the latest user event: [op, arg, on], on = ActiveKeys before it
    nev          \* number of user events so far

vars == <<active, els, body, container, overflow, fragment, history, hidx,
          timers, zone, heroShown, loaded, last, nev>>

\* The program state as one value, so that the functions of main.js can be
\* written as functions from state to state and composed as the code calls them.
Cur ==
    [active |-> active, els |-> els, body |-> body, container |-> container,
     overflow |-> overflow, fragment |-> fragment, history |-> history,
     hidx |-> hidx, timers |-> timers, zone |-> zone, fresh |-> <<>>,
     heroShown |-> heroShown]

\* ---------------------------------------------------------- the timer queue

\* A bound on a difference of times: "at most c" or "less than c".
Le(c) == 2 * c + 1
Lt(c) == 2 * c

\* No bound: larger than every bound the delays of the program can add up to.
Unbounded == Le(1000000)

\* The bound on x - z that follows from a bound on x - y and one on y - z.
BoundSum(b1, b2) ==
    IF b1 = Unbounded \/ b2 = Unbounded THEN Unbounded
    ELSE b1 + b2 - (IF b1 % 2 = 1 \/ b2 % 2 = 1 THEN 1 ELSE 0)

Min(a, b) == IF a <= b THEN a ELSE b

\* A zone over n pending callbacks is a function Z on (0..n) x (0..n):
\* Z[i][j] bounds (time left of the i-th callback of the queue) - (time left
\* of the j-th), where the 0-th time is 0.  The zone of an empty queue:
NoTimers == [i \in {0} |-> [j \in {0} |-> Le(0)]]

\* Some times allowed by Z also satisfy x_i - x_j (<|<=) b.
Allows(Z, i, j, b) == BoundSum(Z[j][i], b) >= Le(0)

\* Z restricted to the times with x_i - x_j (<|<=) b.
Tighten(Z, i, j, b) ==
    IF b >= Z[i][j] THEN Z
    ELSE [a \in DOMAIN Z |-> [c \in DOMAIN Z |->
            Min(Z[a][c], BoundSum(BoundSum(Z[a][i], b), Z[j][c]))]]

\* Time passes, by any amount: every time left decreases by the same amount.
\* setTimeout promises that a callback does not run before its delay has
\* passed, not that it runs then: a time left below 0 is a callback that is
\* overdue, and the next task (an event, or the callback at the head of the
\* queue) can start at any later time.
Elapse(Z) ==
    [a \in DOMAIN Z |-> [c \in DOMAIN Z |->
        IF a = 0 /\ c # 0 THEN Unbounded ELSE Z[a][c]]]

\* The first callback of the queue runs, when it is due or later, and leaves
\* the queue.
Expire(Z) ==
    LET n == Cardinality(DOMAIN Z) - 1
        due == Tighten(Z, 1, 0, Le(0))
        up(a) == IF a = 0 THEN 0 ELSE a + 1
    IN  [a \in 0..(n - 1) |-> [c \in 0..(n - 1) |-> due[up(a)][up(c)]]]

\* A callback registered now with `delay` takes place p of the queue.
WithClock(Z, delay, p) ==
    LET n == Cardinality(DOMAIN Z) - 1
        old(a) == IF a < p THEN a ELSE a - 1
    IN  [a \in 0..(n + 1) |-> [c \in 0..(n + 1) |->
            IF a = p /\ c = p THEN Le(0)
            ELSE IF a = p THEN BoundSum(Le(delay), Z[0][old(c)])
            ELSE IF c = p THEN BoundSum(Z[old(a)][0], Le(0 - delay))
            ELSE Z[old(a)][old(c)]]]

\* Place p is behind the callbacks that are due no later than the new one ...
Behind(Z, p) == IF p > 1 THEN Tighten(Z, p - 1, p, Le(0)) ELSE Z

\* ... and ahead of those due later: a callback registered earlier with the
\* same deadline runs first.
Ahead(Z, p) ==
    IF p < Cardinality(DOMAIN Z) - 1 THEN Tighten(Z, p, p + 1, Lt(0)) ELSE Z

\* The places of the queue that the new callback can take.
Places(Z, delay) ==
    LET n == Cardinality(DOMAIN Z) - 1
    IN  {p \in 1..(n + 1) :
            LET W == WithClock(Z, delay, p)
            IN  /\ p > 1 => Allows(W, p - 1, p, Le(0))
                /\ p <= n => Allows(Behind(W, p), p, p + 1, Lt(0))}

InsertAt(queue, t, p) ==
    SubSeq(queue, 1, p - 1) \o <<t>> \o SubSeq(queue, p, Len(queue))

\* The queues that result when the callbacks registered by a task join the
\* queue, each with the zone of the times left once time passes again.  The
\* delay of a callback counts from its own call of setTimeout: time passes
\* while the task runs, before each call and after the last, and no other
\* task runs in between.
RECURSIVE Schedule(_, _, _)
Schedule(queue, Z, fresh) ==
    IF fresh = <<>> THEN {[timers |-> queue, zone |-> Elapse(Z)]}
    ELSE LET now == Elapse(Z)
         IN  UNION {Schedule(InsertAt(queue, Head(fresh), p),
                             Ahead(Behind(WithClock(now, Head(fresh).delay, p), p), p),
                             Tail(fresh)) :
                        p \in Places(now, Head(fresh).delay)}

\* The task has run: its effects, and the callbacks it registered are queued.
Commit(s) ==
    /\ active' = s.active
    /\ els' = s.els
    /\ body' = s.body
    /\ container' = s.container
    /\ overflow' = s.overflow
    /\ fragment' = s.fragment
    /\ history' = s.history
    /\ hidx' = s.hidx
    /\ heroShown' = s.heroShown
    /\ \E q \in Schedule(s.timers, s.zone, s.fresh) :
          timers' = q.timers /\ zone' = q.zone

\* ------------------------------------------------------------ DOM helpers

\* References to elements: a static panel, a details panel element, or null.
NullRef == [kind |-> "null", id |-> "", n |-> 0]
StaticRef(id) == [kind |-> "static", id |-> id, n |-> 0]
DetailsRef(n) == [kind |-> "details", id |-> detailsModalId, n |-> n]

\* document.getElementById: the first element of the document with that id.
getElementById(s, id) ==
    IF id \in modals THEN StaticRef(id)
    ELSE IF id = detailsModalId /\ s.body # <<>> THEN DetailsRef(Head(s.body))
    ELSE NullRef

\* classList.add('active') / classList.remove('active') on an element.
SetActive(s, ref, v) ==
    IF ref.kind = "static" THEN [s EXCEPT !.active[ref.id] = v]
    ELSE IF ref.kind = "details" THEN [s EXCEPT !.els[ref.n].active = v]
    ELSE s

\* classList.contains('active').
IsActive(s, ref) ==
    IF ref.kind = "static" THEN s.active[ref.id]
    ELSE IF ref.kind = "details" THEN s.els[ref.n].active
    ELSE FALSE

\* Element.remove(): detaches the element; nothing happens if it is detached.
RemoveEl(s, ref) ==
    IF ref.kind = "details"
    THEN [s EXCEPT !.body = SelectSeq(s.body, LAMBDA e : e # ref.n)]
    ELSE s

\* document.getElementById(projectId + "-details") finds an element: a
\* details block of the document, or the details panel itself while it is
\* attached (its id is "modal-project" followed by "-details").
HasDetails(s, projectId) ==
    \/ projectId \in DetailsIds
    \/ getElementById(s, projectId \o "-details").kind # "null"

\* The project whose details the element found by that lookup holds: the
\* block of projectId, or what the attached details panel shows.
DetailsOf(s, projectId) ==
    IF projectId \in DetailsIds THEN projectId ELSE s.els[Head(s.body)].proj

\* setTimeout(callback, delay): the callback is registered; s.fresh holds
\* the callbacks registered by the task that is running, in order.
SetTimeout(s, kind, ref, delay) ==
    [s EXCEPT !.fresh = Append(@, [kind |-> kind, ref |-> ref, delay |-> delay])]

\* The C0 control characters U+0001 .. U+001F in code order (a string of
\* this module cannot hold U+0000), and U+007F.
C0Controls == "" \o "\t" \o "\n" \o "" \o "\r" \o ""
Delete == ""

HexDigits == "0123456789ABCDEF"

C0Set == {SubSeq(C0Controls, i, i) : i \in 1..Len(C0Controls)}

\* The code of a C0 control character.
C0Code(c) == CHOOSE i \in 1..Len(C0Controls) : SubSeq(C0Controls, i, i) = c

\* The characters that a fragment does not hold as they are.
FragmentEscaped == C0Set \cup {Delete, " ", "\"", "<", ">"}

\* "%" followed by the two hexadecimal digits of a code below 256.
PercentByte(n) ==
    "%" \o SubSeq(HexDigits, (n \div 16) + 1, (n \div 16) + 1)
        \o SubSeq(HexDigits, (n % 16) + 1, (n % 16) + 1)

\* What the URL parser stores for one character of a fragment: tab, LF and
\* CR are removed from the input; the other C0 controls, U+007F, space, ",
\* < and > are percent-encoded (so are ` and the characters outside ASCII,
\* which a string of this module cannot hold); every other character is kept.
PercentEncodeChar(c) ==
    IF c \notin FragmentEscaped THEN c
    ELSE IF c \in {"\t", "\n", "\r"} THEN ""
    ELSE IF c \in C0Set THEN PercentByte(C0Code(c))
    ELSE IF c = Delete THEN PercentByte(127)
    ELSE IF c = " " THEN PercentByte(32)
    ELSE IF c = "\"" THEN PercentByte(34)
    ELSE IF c = "<" THEN PercentByte(60)
    ELSE IF c = ">" THEN PercentByte(62)
    ELSE c

\* A C0 control character or a space: the URL parser strips these from both
\* ends of its input.
C0OrSpace(c) == c = " " \/ c \in C0Set

RECURSIVE TrimStart(_)
TrimStart(str) ==
    IF str # "" /\ C0OrSpace(SubSeq(str, 1, 1))
    THEN TrimStart(SubSeq(str, 2, Len(str)))
    ELSE str

RECURSIVE TrimEnd(_)
TrimEnd(str) ==
    IF str # "" /\ C0OrSpace(SubSeq(str, Len(str), Len(str)))
    THEN TrimEnd(SubSeq(str, 1, Len(str) - 1))
    ELSE str

RECURSIVE EncodeChars(_)
EncodeChars(str) ==
    IF str = "" THEN ""
    ELSE PercentEncodeChar(SubSeq(str, 1, 1)) \o EncodeChars(SubSeq(str, 2, Len(str)))

\* The fragment stored for the text that ends the parser's input after '#'.
PercentEncode(str) == EncodeChars(TrimEnd(str))

\* The fragment of the URL that `url` resolves to against the current one:
\* the text after the first '#' of the stripped input, percent-encoded; a
\* url without '#' (a blank string is one) resolves to a URL without fragment.
UrlFragment(url) ==
    LET input == TrimStart(url)
        i == IndexOf(input, "#")
    IN  IF i = 0 THEN "" ELSE PercentEncode(SubSeq(input, i + 1, Len(input)))

\* window.history.pushState(null, '', url): the entries after the current
\* one are dropped and a new entry becomes the current one.
pushState(s, url) ==
    LET f == UrlFragment(url)
    IN  [s EXCEPT !.history = Append(SubSeq(s.history, 1, s.hidx), f),
                  !.hidx = s.hidx + 1,
                  !.fragment = f]

\* window.location.hash: "" for an empty fragment, else '#' and the fragment.
LocationHash(s) == IF s.fragment = "" THEN "" ELSE "#" \o s.fragment

\* -------------------------------------------------------- main.js functions

\* openModal that looks the panel up only when it marks it active.
openModal_lateLookup(s, modalId, updateHash) ==
    LET modal == getElementById(s, modalId)
        hashName == Replace(Replace(modalId, "modal-", ""), "project-", "project/")
        s1 == [s EXCEPT !.container.hidden = TRUE]
        s2 == IF modal.kind = "null" THEN s1
              ELSE SetTimeout(s1, "modalActive", modal, OpenDelay)
    IN  IF updateHash THEN pushState(s2, "#" \o hashName) ELSE s2

\* openModal writing the element id itself as the fragment.
openModal_rawId(s, modalId, updateHash) ==
    LET modal == getElementById(s, modalId)
    IN  IF modal.kind = "null" THEN s
        ELSE LET s1 == [s EXCEPT !.container.hidden = TRUE]
                 s2 == SetTimeout(s1, "modalActive", modal, OpenDelay)
             IN  IF updateHash THEN pushState(s2, "#" \o modalId) ELSE s2

openModal(s, modalId, updateHash) ==
    LET modal == getElementById(s, modalId)
        hashName == Replace(Replace(modalId, "modal-", ""), "project-", "project/")
    IN  IF modal.kind = "null" THEN s
        ELSE LET s1 == [s EXCEPT !.container.hidden = TRUE]
                 s2 == SetTimeout(s1, "modalActive", modal, OpenDelay)
             IN  IF updateHash THEN pushState(s2, "#" \o hashName) ELSE s2

closeModal(s, modal, showMainContent) ==
    IF modal.kind = "null" THEN s
    ELSE LET s1 == SetActive(s, modal, FALSE)
         IN  IF showMainContent
             THEN pushState(
                    SetTimeout([s1 EXCEPT !.overflow = ""], "showMain", NullRef, RestoreDelay),
                    " ")
             ELSE s1

\* closeAllModals that handles the static panels only.
closeAllModals_staticOnly(s) ==
    LET s1 == [s EXCEPT !.active = [m \in modals |-> FALSE]]
        s3 == [s1 EXCEPT !.overflow = "",
                         !.container = [hidden |-> FALSE, opacity |-> "", pointerEvents |-> ""]]
    IN  pushState(s3, " ")

closeAllModals(s) ==
    LET s1 == [s EXCEPT !.active = [m \in modals |-> FALSE]]
        detailsModal == getElementById(s1, detailsModalId)
        s2 == IF detailsModal.kind = "null" THEN s1
              ELSE SetTimeout(SetActive(s1, detailsModal, FALSE),
                              "removeDetails", detailsModal, RemoveDelay)
        s3 == [s2 EXCEPT !.overflow = "",
                         !.container = [hidden |-> FALSE, opacity |-> "", pointerEvents |-> ""]]
    IN  pushState(s3, " ")

\* openProjectDetails that re-asserts the hidden container together with the
\* activation of the panel.
openProjectDetails_earlyReassert(s, projectId) ==
    LET s1 == SetActive(s, getElementById(s, "modal-projects"), FALSE)
    IN  IF ~HasDetails(s1, projectId) THEN s1
        ELSE LET s2 == RemoveEl(s1, getElementById(s1, detailsModalId))
                 n == Len(s2.els) + 1
                 s3 == [s2 EXCEPT !.els = Append(s2.els, [proj |-> DetailsOf(s1, projectId), active |-> FALSE]),
                                  !.body = Append(s2.body, n)]
                 s4 == pushState(s3, "#project/" \o projectId)
                 s5 == [s4 EXCEPT !.container =
                            [hidden |-> TRUE, opacity |-> "0", pointerEvents |-> "none"]]
                 s6 == SetTimeout(s5, "forceHidden", NullRef, DetailsDelay)
             IN  SetTimeout(s6, "detailsActive", DetailsRef(n), DetailsDelay)

\* openProjectDetails that leaves the previous details panel in the document.
openProjectDetails_keepOld(s, projectId) ==
    LET s1 == SetActive(s, getElementById(s, "modal-projects"), FALSE)
    IN  IF ~HasDetails(s1, projectId) THEN s1
        ELSE LET n == Len(s1.els) + 1
                 s3 == [s1 EXCEPT !.els = Append(s1.els, [proj |-> DetailsOf(s1, projectId), active |-> FALSE]),
                                  !.body = Append(s1.body, n)]
                 s4 == pushState(s3, "#project/" \o projectId)
                 s5 == [s4 EXCEPT !.container =
                            [hidden |-> TRUE, opacity |-> "0", pointerEvents |-> "none"]]
                 s6 == SetTimeout(s5, "forceHidden", NullRef, ReassertDelay)
             IN  SetTimeout(s6, "detailsActive", DetailsRef(n), DetailsDelay)

openProjectDetails(s, projectId) ==
    LET s1 == SetActive(s, getElementById(s, "modal-projects"), FALSE)
    IN  IF ~HasDetails(s1, projectId) THEN s1
        ELSE LET s2 == RemoveEl(s1, getElementById(s1, detailsModalId))
                 n == Len(s2.els) + 1
                 modalOverlay == DetailsRef(n)
                 s3 == [s2 EXCEPT !.els = Append(s2.els, [proj |-> DetailsOf(s1, projectId), active |-> FALSE]),
                                  !.body = Append(s2.body, n)]
                 s4 == pushState(s3, "#project/" \o projectId)
                 s5 == [s4 EXCEPT !.container =
                            [hidden |-> TRUE, opacity |-> "0", pointerEvents |-> "none"]]
                 s6 == SetTimeout(s5, "forceHidden", NullRef, ReassertDelay)
             IN  SetTimeout(s6, "detailsActive", modalOverlay, DetailsDelay)

\* checkHash that opens a static panel the way a nav button does.
checkHash_pushes(s) ==
    LET hash == Substring1(LocationHash(s))
    IN  IF hash = "" THEN s
        ELSE IF hash = "projects" THEN openModal(s, "modal-projects", TRUE)
        ELSE IF hash = "about" THEN openModal(s, "modal-about", TRUE)
        ELSE IF hash = "contact" THEN openModal(s, "modal-contact", TRUE)
        ELSE IF StartsWith(hash, "project/")
             THEN LET projectId == SplitSecond(hash)
                  IN  IF projectId # "" THEN openProjectDetails(s, projectId) ELSE s
        ELSE s

checkHash(s) ==
    LET hash == Substring1(LocationHash(s))
    IN  IF hash = "" THEN s
        ELSE IF hash = "projects" THEN openModal(s, "modal-projects", FALSE)
        ELSE IF hash = "about" THEN openModal(s, "modal-about", FALSE)
        ELSE IF hash = "contact" THEN openModal(s, "modal-contact", FALSE)
        ELSE IF StartsWith(hash, "project/")
             THEN LET projectId == SplitSecond(hash)
                  IN  IF projectId # "" THEN openProjectDetails(s, projectId) ELSE s
        ELSE s

initAnimations(s) == SetTimeout(s, "heroAnim", NullRef, AnimDelay)

\* ------------------------------------------------------------------- Init

Init ==
    /\ active = [m \in modals |-> FALSE]
    /\ els = <<>>
    /\ body = <<>>
    /\ container = [hidden |-> FALSE, opacity |-> "", pointerEvents |-> ""]
    /\ overflow = ""
    /\ fragment \in LoadFragments
    /\ history = <<fragment>>
    /\ hidx = 1
    /\ timers = <<>>
    /\ zone = NoTimers
    /\ heroShown = FALSE
    /\ loaded = FALSE
    /\ last = [op |-> "none", arg |-> "", on |-> {}]
    /\ nev = 0

\* ---------------------------------------------------------- the panels open

StaticKeys == {"about", "projects", "contact"}

\* The details panel elements of the document that carry class "active".
ActiveDetails == {i \in 1..Len(body) : els[body[i]].active}

ActiveStatic == {m \in modals : active[m]}

AnyPanelActive == ActiveStatic # {} \/ ActiveDetails # {}

\* The fragment encodings of the panels that are active.
ActiveKeys ==
    {Replace(m, "modal-", "") : m \in ActiveStatic}
        \cup {"project/" \o els[body[i]].proj : i \in ActiveDetails}

\* ----------------------------------------------------------------- events

\* A user event is handled: the handler's effect, and the event is recorded.
\* The listeners of the nav buttons, the close buttons, the backdrops, the
\* keyboard and popstate are bound while the script is evaluated, so these
\* events are handled before DOMContentLoaded too; the card listeners are
\* bound by the DOMContentLoaded handler.
UserEvent(op, arg, s) ==
    /\ nev < MaxEvents
    /\ Commit(s)
    /\ last' = [op |-> op, arg |-> arg, on |-> ActiveKeys]
    /\ nev' = nev + 1
    /\ UNCHANGED loaded

DOMContentLoaded ==
    /\ ~loaded
    /\ loaded' = TRUE
    /\ Commit(SetTimeout(initAnimations(Cur), "checkHash", NullRef, CheckHashDelay))
    /\ last' = IF nev = 0 THEN [op |-> "load", arg |-> fragment, on |-> {}] ELSE last
    /\ UNCHANGED nev

NavButtonClick(name) ==
    UserEvent("nav", name, openModal(Cur, "modal-" \o name, TRUE))

CloseButtonClick(m) ==
    UserEvent("close", m, closeModal(Cur, StaticRef(m), TRUE))

OverlayClick(m) ==
    UserEvent("close", m, closeModal(Cur, StaticRef(m), TRUE))

\* The Escape handler reopening the projects list without writing the fragment.
EscapeKey_noHash ==
    LET detailsModal == getElementById(Cur, detailsModalId)
    IN  IF detailsModal.kind # "null" /\ IsActive(Cur, detailsModal)
        THEN UserEvent("escape", "details",
                       openModal(closeModal(Cur, detailsModal, FALSE), "modal-projects", FALSE))
        ELSE UserEvent("escape", "all", closeAllModals(Cur))

EscapeKey ==
    LET detailsModal == getElementById(Cur, detailsModalId)
    IN  IF detailsModal.kind # "null" /\ IsActive(Cur, detailsModal)
        THEN UserEvent("escape", "details",
                       openModal(closeModal(Cur, detailsModal, FALSE), "modal-projects", TRUE))
        ELSE UserEvent("escape", "all", closeAllModals(Cur))

ProjectCardClick(projectId) ==
    /\ loaded
    /\ UserEvent("card", projectId, openProjectDetails(Cur, projectId))

\* The close button of the details panel that is in the document.
DetailsCloseClick ==
    /\ body # <<>>
    /\ \E n \in {body[i] : i \in 1..Len(body)} :
          UserEvent("detailsClose", els[n].proj,
                    SetTimeout(closeModal(Cur, DetailsRef(n), FALSE),
                               "reopenProjects", NullRef, ReopenDelay))

\* A click on the backdrop of the details panel that is in the document.
DetailsOverlayClick ==
    /\ body # <<>>
    /\ \E n \in {body[i] : i \in 1..Len(body)} :
          UserEvent("detailsOverlay", els[n].proj, closeModal(Cur, DetailsRef(n), TRUE))

\* The browser's back and forward buttons: the browser moves to another entry
\* i of the session history, the URL becomes that entry's, and the popstate
\* handler runs.
PopState(i) ==
    /\ i \in 1..Len(history)
    /\ i # hidx
    /\ LET s0 == [Cur EXCEPT !.hidx = i, !.fragment = history[i]]
       IN  UserEvent("popstate", history[i], checkHash(closeAllModals(s0)))

\* ----------------------------------------------------------------- timers

\* The callback at the head of the queue is the next to run.
Due(kind) ==
    /\ timers # <<>>
    /\ Head(timers).kind = kind

\* The state in which the due callback runs: it has left the queue.
Popped == [Cur EXCEPT !.timers = Tail(timers), !.zone = Expire(zone)]

Run(s) == Commit(s) /\ UNCHANGED <<loaded, last, nev>>

ModalActiveTimer ==
    /\ Due("modalActive")
    /\ Run([SetActive(Popped, Head(timers).ref, TRUE) EXCEPT !.overflow = "hidden"])

ShowMainTimer ==
    /\ Due("showMain")
    /\ Run([Popped EXCEPT !.container =
                [hidden |-> FALSE, opacity |-> "", pointerEvents |-> ""]])

\* The removal callback looking the details panel up when it runs.
RemoveDetailsTimer_byId ==
    /\ Due("removeDetails")
    /\ Run(RemoveEl(Popped, getElementById(Popped, detailsModalId)))

RemoveDetailsTimer ==
    /\ Due("removeDetails")
    /\ Run(RemoveEl(Popped, Head(timers).ref))

ForceHiddenTimer ==
    /\ Due("forceHidden")
    /\ Run([Popped EXCEPT !.container.hidden = TRUE, !.container.opacity = "0"])

ReopenProjectsTimer ==
    /\ Due("reopenProjects")
    /\ Run(openModal(Popped, "modal-projects", FALSE))

DetailsActiveTimer ==
    /\ Due("detailsActive")
    /\ Run([SetActive(Popped, Head(timers).ref, TRUE) EXCEPT !.overflow = "hidden"])

HeroAnimTimer ==
    /\ Due("heroAnim")
    /\ Run([Popped EXCEPT !.heroShown = TRUE])

CheckHashTimer ==
    /\ Due("checkHash")
    /\ Run(checkHash(Popped))

Next ==
    \/ DOMContentLoaded
    \/ \E name \in navButtons : NavButtonClick(name)
    \/ \E m \in modals : CloseButtonClick(m)
    \/ \E m \in modals : OverlayClick(m)
    \/ EscapeKey
    \/ \E projectId \in CardIds : ProjectCardClick(projectId)
    \/ DetailsCloseClick
    \/ DetailsOverlayClick
    \/ \E i \in 1..Len(history) : PopState(i)
    \/ ModalActiveTimer
    \/ ShowMainTimer
    \/ RemoveDetailsTimer
    \/ ForceHiddenTimer
    \/ ReopenProjectsTimer
    \/ DetailsActiveTimer
    \/ HeroAnimTimer
    \/ CheckHashTimer

Spec == Init /\ [][Next]_vars

\* The page loaded with one of the further fragments.
LoadInit ==
    /\ active = [m \in modals |-> FALSE]
    /\ els = <<>>
    /\ body = <<>>
    /\ container = [hidden |-> FALSE, opacity |-> "", pointerEvents |-> ""]
    /\ overflow = ""
    /\ fragment \in OtherLoadFragments
    /\ history = <<fragment>>
    /\ hidx = 1
    /\ timers = <<>>
    /\ zone = NoTimers
    /\ heroShown = FALSE
    /\ loaded = FALSE
    /\ last = [op |-> "none", arg |-> "", on |-> {}]
    /\ nev = 0

LoadSpec == LoadInit /\ [][Next]_vars

\* ------------------------------------------------------------- vocabulary

\* The step handles a user event.
EventStep == nev' = nev + 1

\* The step runs a due callback of one of the kinds.
CallbackStep(kinds) ==
    /\ timers # <<>>
    /\ Head(timers).kind \in kinds
    /\ nev' = nev
    /\ loaded' = loaded
    /\ timers' # timers

\* The page has been loaded and no callback is pending.
Settled == loaded /\ timers = <<>>

BackgroundVisible ==
    container = [hidden |-> FALSE, opacity |-> "", pointerEvents |-> ""]

\* A freshly loaded page whose URL has fragment f.
Blank(f) ==
    [active |-> [m \in modals |-> FALSE], els |-> <<>>, body |-> <<>>,
     container |-> [hidden |-> FALSE, opacity |-> "", pointerEvents |-> ""],
     overflow |-> "", fragment |-> f, history |-> <<f>>, hidx |-> 1,
     timers |-> <<>>, zone |-> NoTimers, fresh |-> <<>>, heroShown |-> FALSE]

\* The fragment encodings of the panels that the pending callbacks of s
\* will mark active.
OpeningKeys(s) ==
    LET pending == s.timers \o s.fresh
    IN  {Replace(pending[i].ref.id, "modal-", "") :
            i \in {j \in 1..Len(pending) : pending[j].kind = "modalActive"}}
        \cup {"project/" \o s.els[pending[i].ref.n].proj :
            i \in {j \in 1..Len(pending) : pending[j].kind = "detailsActive"}}

\* The navigation state that checkHash resolves fragment f to on a fresh
\* page, as the set of panels it opens (none for Home).
Decode(f) == OpeningKeys(checkHash(Blank(f)))

\* ------------------------------------------------------------------ claims

\* C1: whenever a panel (static or details) is marked active, the background
\* container is hidden, whatever the interleaving of events and callbacks.
C1_ActiveImpliesHidden == AnyPanelActive => container.hidden

\* C2: in a settled state the fragment is the encoding of the active panel:
\* empty when none is active, the key of the active static panel, or
\* project/<id> for the active details panel.
C2_FragmentDecodesToActive ==
    Settled =>
        /\ ActiveKeys = {} => fragment = ""
        /\ \A k \in ActiveKeys : fragment = k

\* C3: after a popstate on a fragment that encodes a known panel, once the
\* callbacks have run, the panel encoded by that fragment is active.
C3_PopstateResolvesFragment ==
    (/\ last.op = "popstate"
     /\ Settled
     /\ \/ last.arg \in StaticKeys
        \/ StartsWith(last.arg, "project/") /\ SplitSecond(last.arg) \in DetailsIds)
        => last.arg \in ActiveKeys

\* C4: showDetails(id) for an id without details content changes no panel's
\* active flag, no panel element, not the background, the fragment or the
\* history, and schedules no callback.
C4_MissingDetailsNoEffect ==
    [][\A id \in CardIds \ DetailsIds :
          ProjectCardClick(id) =>
              UNCHANGED <<active, els, body, container, fragment, history,
                          hidx, timers>>]_vars

\* C5: in a settled state at most one static panel and at most one details
\* panel are marked active.
C5_AtMostOneActive ==
    Settled => Cardinality(ActiveStatic) <= 1 /\ Cardinality(ActiveDetails) <= 1

\* C6: in a settled state with no panel marked active, the background
\* container is visible and interactive.
C6_NoPanelImpliesVisible ==
    (Settled /\ ~AnyPanelActive) => BackgroundVisible

\* C7: right after open(k) of a static panel k with the fragment update on,
\* the fragment is exactly k; right after a close that restores the
\* background, the fragment is empty.
C7_OpenWritesKeyCloseClears ==
    /\ (last.op = "nav" /\ last.arg \in StaticKeys) => fragment = last.arg
    /\ last.op = "close" => fragment = ""

\* open(k) was followed by a close of the same panel.
C7_Witness ==
    /\ last.op = "close"
    /\ hidx >= 3
    /\ history[hidx - 1] \in StaticKeys
    /\ last.arg = "modal-" \o history[hidx - 1]
    /\ fragment = ""

\* C8: Escape pressed while the details panel is active, and no other event
\* after it: once the callbacks have run, the projects list is active, the
\* details panel is not, and the fragment is "projects".
C8_EscapeFromDetails ==
    (last.op = "escape" /\ last.arg = "details" /\ Settled) =>
        /\ active["modal-projects"]
        /\ ActiveDetails = {}
        /\ fragment = "projects"

C8_Witness ==
    /\ last.op = "escape" /\ last.arg = "details" /\ Settled
    /\ body # <<>>
    /\ active["modal-projects"]

\* The fragment of a URL that ends in #project/<id>.
ProjectFragment(id) == UrlFragment("#project/" \o id)

\* C9: a page loaded with fragment project/<id>, for every project <id> of
\* the document that has details, and no user event: the projects list is
\* never marked active, and once the callbacks have run the details panel
\* of <id> is active.
C9_DirectDetailsLoad ==
    \A id \in DetailsIds :
        (last.op = "load" /\ last.arg = ProjectFragment(id)) =>
            /\ ~active["modal-projects"]
            /\ (Settled => \E i \in ActiveDetails : els[body[i]].proj = id)

\* C10: after showDetails(id) for an id with details, whatever came before,
\* the document holds exactly one details panel, the newest element, showing
\* id; every earlier details panel element is out of the document.
C10_OneDetailsPanel ==
    (last.op = "card" /\ last.arg \in DetailsIds) =>
        /\ Len(body) = 1
        /\ body[1] = Len(els)
        /\ els[body[1]].proj = last.arg

\* showDetails("p1") then showDetails("p2"), settled.
C10_Witness ==
    /\ last.op = "card" /\ last.arg = "p2"
    /\ Settled
    /\ Len(els) = 2
    /\ els[1].proj = "p1"
    /\ body = <<2>>

\* C11: every fragment the controller has written (every history entry after
\* the one the page was loaded with) is resolved by checkHash to the state it
\* encodes: the empty fragment to no panel, any other to exactly the panel
\* with that encoding, and resolving leaves the fragment as it is.
C11_WrittenFragmentsRoundTrip ==
    \A i \in 2..Len(history) :
        /\ Decode(history[i]) = IF history[i] = "" THEN {} ELSE {history[i]}
        /\ checkHash(Blank(history[i])).fragment = history[i]

\* C12: closeAllModals runs in the Escape handler when no details panel is
\* active and in the popstate handler. In the state right after such an event
\* no static panel is active, no details panel in the document is active, the
\* background is visible and the fragment is empty; for the details panel
\* that was in the document a removal callback is pending with the full
\* delay, and a removal callback takes its element out of the document.
C12_CloseAllResets ==
    [][ /\ (EventStep /\ (last'.op = "popstate" \/ (last'.op = "escape" /\ last'.arg = "all")))
            => /\ ActiveStatic' = {}
               /\ ActiveDetails' = {}
               /\ BackgroundVisible'
               /\ fragment' = ""
               /\ \A i \in 1..Len(body) : \E j \in 1..Len(timers') :
                      timers'[j] = [kind |-> "removeDetails", ref |-> DetailsRef(body[i]),
                                    delay |-> RemoveDelay]
        /\ CallbackStep({"removeDetails"})
            => \A i \in 1..Len(body') : body'[i] # Head(timers).ref.n
      ]_vars

\* Escape while the details panel of a project is in the document and not yet
\* active: closeAllModals ran, and the removal callback has fired.
C12_Witness ==
    /\ last.op = "escape" /\ last.arg = "all"
    /\ Settled
    /\ Len(els) = 1
    /\ body = <<>>
    /\ fragment = ""

\* C13: a click on the close button of a static panel that is not active
\* changes nothing: the active flags, the background now and later (no
\* callback scheduled), the scroll lock, the fragment and the history.
C13_CloseInactiveNoOp ==
    [][ \A m \in modals :
          (CloseButtonClick(m) /\ ~active[m])
              => UNCHANGED <<active, els, body, container, overflow,
                             fragment, history, hidx, timers>>
      ]_vars

\* The latest user event is a click on the close button of a details panel
\* that was active.
ClosedActiveDetails ==
    last.op = "detailsClose" /\ ("project/" \o last.arg) \in last.on

\* Callback t is pending in the queue.
Pending(queue, t) == \E j \in 1..Len(queue) : queue[j] = t

\* C14: a click on the close button of an active details panel, with no
\* later user event. The details panel is inactive right after the click and
\* the click leaves the fragment and the history as they are; the click
\* schedules the reopening of the projects list, whose callbacks mark the
\* list active (50 ms, then 10 ms) and leave the fragment and the history as
\* they are; the container is hidden in every state from the click until the
\* projects list is active.
C14_DetailsCloseReturnsToList ==
    /\ [](ClosedActiveDetails => (~active["modal-projects"] => container.hidden))
    /\ [][ /\ (EventStep /\ ClosedActiveDetails')
               => /\ ActiveDetails' = {}
                  /\ UNCHANGED <<fragment, history, hidx>>
                  /\ Pending(timers', [kind |-> "reopenProjects", ref |-> NullRef,
                                       delay |-> ReopenDelay])
           /\ CallbackStep({"reopenProjects"})
               => /\ UNCHANGED <<fragment, history, hidx>>
                  /\ Pending(timers', [kind |-> "modalActive",
                                       ref |-> StaticRef("modal-projects"),
                                       delay |-> OpenDelay])
           /\ (CallbackStep({"modalActive"}) /\ Head(timers).ref = StaticRef("modal-projects"))
               => active'["modal-projects"]
         ]_vars

\* C15: while no user event has occurred after a load with the fragment of a
\* static panel, the fragment and the history are as loaded (one entry, no
\* entry pushed), and once no callback is pending exactly that panel is
\* active.
C15_StaticLoadKeepsHistory ==
    (last.op = "load" /\ last.arg \in StaticKeys) =>
        /\ fragment = last.arg
        /\ history = <<last.arg>>
        /\ hidx = 1
        /\ Settled => ActiveStatic = {"modal-" \o last.arg} /\ body = <<>>

\* Load with #contact, settled.
C15_Witness ==
    /\ last.op = "load" /\ last.arg = "contact"
    /\ Settled
    /\ active["modal-contact"]
    /\ history = <<"contact">>

\* C16: when the latest user event closed a details panel that was active
\* (its close button, its backdrop, Escape, or closeAllModals in the popstate
\* handler), no callback is pending and no details panel is active, the
\* document holds no details panel element.
C16_NoDetailsElementAfterClose ==
    (/\ last.op \in {"detailsClose", "detailsOverlay", "escape", "popstate"}
     /\ \E k \in last.on : StartsWith(k, "project/")
     /\ Settled
     /\ ActiveDetails = {}) => body = <<>>

\* A non-empty fragment that names no panel: not a static key, and not
\* project/<id> for a project <id> of the document that has details.
Undecodable(f) ==
    /\ f # ""
    /\ f \notin StaticKeys
    /\ \A id \in DetailsIds : f # "project/" \o id /\ f # ProjectFragment(id)

\* C17: the load-time checkHash callback, run while the fragment names no
\* panel, changes nothing: the active flags, the details panels, the
\* container, the scroll lock, the fragment and the history stay as they are
\* and no callback is scheduled.
C17_UnknownFragmentIgnored ==
    [][ (CallbackStep({"checkHash"}) /\ Undecodable(fragment))
            => /\ UNCHANGED <<active, els, body, container, overflow,
                              fragment, history, hidx>>
               /\ timers' = Tail(timers)
      ]_vars

\* Panel keys for which the document has no modal-<key> element.
MissingKeys == {k \in navButtons \cup {"nope"} : "modal-" \o k \notin modals}

\* C18: in every reachable state, openModal for a key without a panel
\* element returns the state it was given, with updateHash true and false:
\* no active flag, container, scroll lock, fragment, history entry or pending
\* callback changes.
C18_OpenMissingPanelNoOp ==
    \A k \in MissingKeys : \A updateHash \in BOOLEAN :
        openModal(Cur, "modal-" \o k, updateHash) = Cur

\* The nav button "blog" was clicked while the about panel was active.
C18_Witness ==
    /\ last.op = "nav" /\ last.arg = "blog"
    /\ "about" \in last.on
    /\ active["modal-about"]
    /\ fragment = "about"

\* C19: after a click on the card of a project with details, with no later
\* user event: every pending restore callback (of an earlier close) is
\* followed in the queue by a callback that re-asserts the hidden container,
\* and once no callback is pending the container is hidden and the details
\* panel of that project is active.
C19_ReassertBeatsRestore ==
    (last.op = "card" /\ last.arg \in DetailsIds) =>
        /\ \A i \in 1..Len(timers) : timers[i].kind = "showMain" =>
               \E j \in (i + 1)..Len(timers) : timers[j].kind = "forceHidden"
        /\ Settled =>
               /\ container.hidden
               /\ \E i \in ActiveDetails : els[body[i]].proj = last.arg

\* A card was clicked while the restore callback of an earlier close was
\* pending: the state right after the click.
C19_Witness ==
    /\ last.op = "card" /\ last.arg = "p1"
    /\ nev = 2
    /\ \E i \in 1..Len(timers) : timers[i].kind = "showMain"
    /\ Pending(timers, [kind |-> "detailsActive", ref |-> DetailsRef(Len(els)),
                        delay |-> DetailsDelay])
    /\ Pending(timers, [kind |-> "forceHidden", ref |-> NullRef, delay |-> ReassertDelay])

\* The callbacks that openModal, closeModal, closeAllModals and
\* openProjectDetails schedule.
ControllerKinds == {"modalActive", "showMain", "removeDetails", "forceHidden", "detailsActive"}

\* C20: a callback scheduled by openModal, closeModal,
\* closeAllModals or openProjectDetails marks no panel active or inactive and
\* leaves the fragment and the history as they are; it only restores the
\* background or removes the details panel element.
C20_MutationsWithTheEvent ==
    [][ CallbackStep(ControllerKinds)
            => /\ UNCHANGED <<active, els, overflow, fragment, history, hidx>>
               /\ container' = container \/ BackgroundVisible'
      ]_vars

\* C21: a pending callback refers to a details panel element that exists
\* (elements are numbered in the order of their creation); the removal
\* callback takes no other element than its own out of the document, and
\* the activation callback changes the active flag of no other element than
\* its own, so neither acts on an element that a later openProjectDetails
\* created.
C21_CallbackActsOnItsElement ==
    /\ [](\A i \in 1..Len(timers) :
            timers[i].ref.kind = "details" => timers[i].ref.n \in 1..Len(els))
    /\ [][ /\ CallbackStep({"removeDetails"})
               => \A i \in 1..Len(body) :
                     body[i] # Head(timers).ref.n
                         => \E j \in 1..Len(body') : body'[j] = body[i]
           /\ CallbackStep({"detailsActive"})
               => /\ Len(els') = Len(els)
                  /\ \A n \in 1..Len(els) :
                         n # Head(timers).ref.n => els'[n] = els[n]
                  /\ body' = body
         ]_vars

\* The removal callback of closeAllModals and the activation callback of an
\* earlier openProjectDetails are pending for element 1 while element 2,
\* created by a later click on a card, is in the document.
C21_Witness ==
    /\ last.op = "card"
    /\ Len(els) = 2
    /\ body = <<2>>
    /\ \E i \in 1..Len(timers) :
          timers[i].kind = "removeDetails" /\ timers[i].ref = DetailsRef(1)
    /\ \E i \in 1..Len(timers) :
          timers[i].kind = "detailsActive" /\ timers[i].ref = DetailsRef(1)

====
